---- MODULE Spec2Model ----
(***************************************************************************)
(* Hybrid retrieval core of the restaurant search service                  *)
(* (src/app/retrieve/hybrid_search.py): the two retrieval channels, the    *)
(* Reciprocal Rank Fusion of their result lists and the merge of the fused *)
(* lists of several sub-queries.                                           *)
(*                                                                         *)
(* One behaviour of the model is one call of hybrid_search.  The document  *)
(* store and the embedder are the environment: each channel call draws its *)
(* outcome (a hit list with unique place_ids, a store error, an embedder   *)
(* error) nondeterministically.  Of a document only place_id, ranks and    *)
(* scores are kept; the score of a hit is given by its rank.               *)
(*                                                                         *)
(* Python values: a dict is a record; a key that is missing from a dict    *)
(* has the value Absent, a key bound to None has the value None, and every *)
(* real rank or score is a positive integer.  The float 1/(k+rank) is the  *)
(* exact rational, held as an integer number of 1/RrfScale units.          *)
(***************************************************************************)
EXTENDS Integers, Sequences, FiniteSets, TLC

\* ---------------------------------------------------------------- bounds
\* longest hit list a channel returns in the model
MaxHits == 2
\* calls of get_elasticsearch_client one thread makes
MaxCalls == 2
\* largest size of a request of several sub-queries
MaxBudget == 12
\* largest size of a request of one sub-query whose fetch window is looked at
MaxWindowBudget == 5
\* calls of chat_fn in one run
MaxChats == 3
\* advances of the clock in one run
MaxTicks == 3
\* messages of one conversation of chat.py
MaxMessages == 3
\* largest size budget a request is made with
MaxSize == 3

\* place_ids the store holds
Places == {"p1", "p2", "p3"}
\* the sub-query lists (NLU suggested_queries) a request is made with
QueryLists == {<<>>, <<"qa">>, <<"qa", "qb">>}

\* ------------------------------------------------------- program constants
\* reciprocal_rank_fusion(..., k: int = 60)
RrfK == 60
\* a dict key that is not set
Absent == -1
\* Python None
None == 0

Min(a, b) == IF a <= b THEN a ELSE b
Max(a, b) == IF a >= b THEN a ELSE b

RECURSIVE ProdTo(_)
ProdTo(r) == IF r = 0 THEN 1 ELSE (RrfK + r) * ProdTo(r - 1)
\* unit of the fused scores: every 1/(RrfK + rank), rank <= MaxHits, is a whole
\* number of 1/RrfScale
RrfScale == ProdTo(MaxHits)

VARIABLES
    pc,              \* position in hybrid_search / execute_multiple_query_search
    queries,         \* argument queries
    size,            \* argument size
    qi,              \* index of the sub-query being searched (the for loop)
    kw_response,     \* per sub-query, the hits the keyword channel received
    vec_response,    \* per sub-query, the hits the vector channel received
    bm25_results,    \* local bm25_results of the current sub-query
    vector_results,  \* local vector_results of the current sub-query
    query_results,   \* list of {'query', 'results'} of the sub-queries with results
    selected,        \* per entry of query_results, its query_final_results
    final_results,   \* local final_results; the returned list once pc = "done"
    bpc,             \* position in the building of the two query bodies
    intent,          \* argument intent
    query_text,      \* argument query_text
    entities,        \* argument entities
    fetch_size,      \* argument size of the query builders (the search_size)
    lookups,         \* the calls of search_coordinates_index made so far
    bm25_query,      \* the body build_bm25_query returned
    vector_query,    \* the body build_vector_query returned
    es_client,       \* the module global _es_client
    created,         \* how many times create_elasticsearch_client has run
    tpc,             \* position of each thread in get_elasticsearch_client
    tlocal,          \* the client a thread has created and not yet assigned
    tcalls,          \* the calls each thread has completed
    returned,        \* the clients get_elasticsearch_client has returned
    spc,             \* position in the fusion of the two ranked documents
    rank_kw,         \* keyword rank of the document both channels returned
    rank_vec,        \* vector rank of the document both channels returned
    rank_one,        \* rank of the document one channel returned
    one_channel,     \* the channel that returned that document
    rrf_pair,        \* rrf_scores of the two documents
    fused_order,     \* the two documents in the order of the fused list
    now,             \* datetime.now(), in minutes
    sessions,        \* SessionManager.sessions
    last_cleanup,    \* SessionManager._last_cleanup
    handed,          \* the session the last chat_fn got from get_or_create_session
    chats,           \* the calls of chat_fn so far
    ticks,           \* the advances of the clock so far
    conversation_context,\* the module global of chat.py
    chat_history,    \* the length of the history of each conversation
    chat_pc,         \* where the call of chat_fn of each conversation stands
    restaurant_context,\* the local restaurant_context of the call of each conversation
    first_result,    \* the search result of the first message of each conversation
    used             \* the context the last follow-up was answered with

\* the locals of hybrid_search and execute_multiple_query_search
searchVars == <<pc, queries, size, qi, kw_response, vec_response, bm25_results,
                vector_results, query_results, selected, final_results>>
\* the arguments and results of the query builders
builderVars == <<bpc, intent, query_text, entities, fetch_size, lookups,
                 bm25_query, vector_query>>

\* the module global and the threads in get_elasticsearch_client
clientVars == <<es_client, created, tpc, tlocal, tcalls, returned>>

\* the ranks and the fusion of a document of both channels and a document of one
scoreVars == <<spc, rank_kw, rank_vec, rank_one, one_channel, rrf_pair, fused_order>>

\* the clock, the SessionManager and the calls of chat_fn
sessionVars == <<now, sessions, last_cleanup, handed, chats, ticks>>

\* the global context of chat.py and its conversations
chatVars == <<conversation_context, chat_history, chat_pc, restaurant_context, first_result, used>>

vars == <<searchVars, builderVars, clientVars, scoreVars, sessionVars, chatVars>>

\* ------------------------------------------------------------ the store
\* response["hits"]["hits"] of a search asking for n hits, as the place_ids of its
\* hits in order: place_id is unique within one response
HitLists(n) ==
    {h \in UNION {[1..m -> Places] : m \in 0..Min(n, MaxHits)} :
        \A i, j \in DOMAIN h : i # j => h[i] # h[j]}

\* hit["_score"]: the store orders its hits by descending score
HitScore(rank) == (MaxHits + 2) - rank

\* hit["_source"] of the hit at position rank
Source(hits, rank) ==
    [place_id |-> hits[rank], _score |-> Absent, bm25_rank |-> Absent,
     _rank |-> Absent, bm25_score |-> Absent, vector_rank |-> Absent,
     vector_score |-> Absent]

\* ------------------------------------------------------------- channels
\* the list execute_bm25_search builds from the hits
Bm25Results(hits) ==
    [r \in 1..Len(hits) |->
        [Source(hits, r) EXCEPT !._score = HitScore(r), !.bm25_rank = r]]

\* the list execute_vector_search builds from the hits
VectorResults(hits) ==
    [r \in 1..Len(hits) |->
        [Source(hits, r) EXCEPT !._score = HitScore(r), !._rank = r]]

\* search_size of the single-query path
SingleSearchSize(sz) == Max(50, sz * 10)
\* search_size of the multi-query path
MultiSearchSize(sz, n) == Max(20, (sz \div n) * 2)

SearchSize == IF Len(queries) > 1 THEN MultiSearchSize(size, Len(queries))
              ELSE SingleSearchSize(size)


\* ------------------------------------------------------ strings, entities
\* a Python str is the sequence of its characters
IsSpace(c) == c = " "

\* str.lower() of the characters in use
LowerChar(c) ==
    CASE c = "A" -> "a" [] c = "E" -> "e" [] c = "S" -> "s" [] c = "X" -> "x"
      [] OTHER -> c
Lower(str) == [i \in 1..Len(str) |-> LowerChar(str[i])]

\* str.strip()
RECURSIVE LStrip(_)
LStrip(str) == IF str # <<>> /\ IsSpace(str[1]) THEN LStrip(Tail(str)) ELSE str
RECURSIVE RStrip(_)
RStrip(str) ==
    IF str # <<>> /\ IsSpace(str[Len(str)])
    THEN RStrip(SubSeq(str, 1, Len(str) - 1)) ELSE str
Strip(str) == RStrip(LStrip(str))

\* a in b for two str
Contains(b, a) ==
    \E i \in 0..(Len(b) - Len(a)) : SubSeq(b, i + 1, i + Len(a)) = a

\* ",".join(list)
RECURSIVE Join(_)
Join(list) ==
    IF list = <<>> THEN <<>>
    ELSE IF Len(list) = 1 THEN list[1]
    ELSE list[1] \o <<",">> \o Join(Tail(list))

\* location strings, one for each way the coordinate lookup can answer
LocNoMatch == <<"n">>
LocSingle == <<"s">>
LocExact == <<"e", " ">>
LocAmbiguous == <<"a">>
LocationPool == {LocNoMatch, LocSingle, LocExact, LocAmbiguous}

\* the coordinates index: hit["_source"] of the hits of a name query, in order
CoordinatesIndex(query) ==
    CASE query = LocNoMatch -> <<>>
      [] query = LocSingle ->
            << [name |-> <<"s", "x">>, coordinate |-> [lat |-> 1, lon |-> 11]] >>
      [] query = LocExact ->
            << [name |-> <<" ", "e">>, coordinate |-> [lat |-> 2, lon |-> 12]],
               [name |-> <<"e", "x">>, coordinate |-> [lat |-> 3, lon |-> 13]] >>
      [] query = LocAmbiguous ->
            << [name |-> <<"a", "x">>, coordinate |-> [lat |-> 4, lon |-> 14]],
               [name |-> <<"a">>, coordinate |-> [lat |-> 5, lon |-> 15]] >>

\* the entity lists a request is made with
LocationLists ==
    {<<>>} \cup {<<l>> : l \in LocationPool}
    \cup {<<LocSingle, LocNoMatch>>, <<LocNoMatch, LocExact>>,
          <<LocExact, LocAmbiguous>>, <<LocAmbiguous, LocSingle>>}
TitleLists == {<<>>, << <<"b">> >>, << <<"S", "x">> >>, << <<"b">>, <<"E", " ", "x">> >>}
ValueLists == {<<>>, << <<"v">>, <<"w">> >>}
EntitySets ==
    [location : LocationLists, title : TitleLists, category : ValueLists,
     convenience : ValueLists, atmosphere : ValueLists, occasion : ValueLists,
     menu : ValueLists]
Intents == {"search", "compare", "information", "other"}
QueryTexts == {<<>>, <<"q">>}
FetchSizes == {20, 50}

\* ------------------------------------------------------- query builders
\* faulty variant: a default coordinate when client.search raised
search_coordinates_index_default(query, raised) ==
    IF raised
    THEN << [name |-> query, coordinate |-> [lat |-> 0, lon |-> 0]] >>
    ELSE CoordinatesIndex(query)

\* search_coordinates_index: the hits, or [] when client.search raised
search_coordinates_index(query, raised) ==
    IF raised THEN <<>> ELSE CoordinatesIndex(query)

\* no coordinate
NoCoordinate == [lat |-> Absent, lon |-> Absent]

\* the clauses and filters of a query body: a dict of the body is a record, a
\* key the dict lacks is "", <<>>, Absent or NoCoordinate; boost is in tenths
GeoDistance(coord) ==
    [type |-> "geo_distance", path |-> "", field |-> "pin.coordinate", query |-> <<>>,
     boost |-> Absent, distance |-> "3km", coordinate |-> coord]
Match(field, query, boost) ==
    [type |-> "match", path |-> "", field |-> field, query |-> query, boost |-> boost,
     distance |-> "", coordinate |-> NoCoordinate]
MultiMatch(query, boost) ==
    [type |-> "multi_match", path |-> "", field |-> "search_fields", query |-> query,
     boost |-> boost, distance |-> "", coordinate |-> NoCoordinate]
Nested(path, field, query, boost) ==
    [type |-> "nested", path |-> path, field |-> field, query |-> query,
     boost |-> boost, distance |-> "", coordinate |-> NoCoordinate]

\* the filters build_location_filters appends for one location
LocationFilter(location, coordinates_results) ==
    IF coordinates_results # <<>>
    THEN IF Len(coordinates_results) = 1
            \/ Strip(coordinates_results[1].name) = Strip(location)
         THEN << GeoDistance(coordinates_results[1].coordinate) >>
         ELSE << Match("address", location, Absent) >>
    ELSE <<>>

\* build_location_filters, from location i on; raised[i] tells whether the
\* lookup of location i raised
RECURSIVE LocationFiltersFrom(_, _, _)
LocationFiltersFrom(locations, raised, i) ==
    IF i > Len(locations) THEN <<>>
    ELSE LocationFilter(locations[i],
                        search_coordinates_index(locations[i], raised[i]))
         \o LocationFiltersFrom(locations, raised, i + 1)

build_location_filters(ents, raised) == LocationFiltersFrom(ents.location, raised, 1)

\* one match clause for every element of a list
MatchEach(field, list, boost) ==
    [i \in 1..Len(list) |-> Match(field, list[i], boost)]

\* the body of a keyword query: query is the key of the dict "query" ("bool",
\* "must_not" or "match_all"), the rest are the keys of the bool query, <<>>
\* or Absent for a key it lacks
Bm25Body(sz, should, min_should, must, filter, empty_query) ==
    [size |-> sz,
     query |-> IF should = <<>> /\ must = <<>> /\ filter = <<>>
               THEN empty_query ELSE "bool",
     should |-> should,
     minimum_should_match |-> IF should # <<>> THEN min_should ELSE Absent,
     must |-> must,
     filter |-> filter]

\* the clause of an entity list whose values are joined into one query
Joined(field, list, boost) ==
    IF list # <<>> THEN << Match(field, Join(list), boost) >> ELSE <<>>

build_general_search_bm25_query(text, ents, sz, raised) ==
    Bm25Body(sz,
             (IF text # <<>> THEN << MultiMatch(text, 5) >> ELSE <<>>)
             \o MatchEach("title", ents.title, 10)
             \o Joined("category", ents.category, 20)
             \o Joined("convenience", ents.convenience, 12)
             \o Joined("atmosphere", ents.atmosphere, 10)
             \o Joined("occasion", ents.occasion, 10)
             \o (IF ents.menu # <<>>
                 THEN << Nested("menus", "review_food", Join(ents.menu), 12),
                         Match("review_food", Join(ents.menu), 12) >>
                 ELSE <<>>),
             1, <<>>, build_location_filters(ents, raised), "must_not")

\* faulty variant: the substring test without lower()
InSomeTitleCaseSensitive(location, titles) ==
    \E i \in 1..Len(titles) : Contains(titles[i], location)

\* any(location.lower() in title.lower() for title in titles)
InSomeTitle(location, titles) ==
    \E i \in 1..Len(titles) : Contains(Lower(titles[i]), Lower(location))

\* the address clauses of the compare query, from location i on
RECURSIVE CompareAddressFrom(_, _, _)
CompareAddressFrom(locations, titles, i) ==
    IF i > Len(locations) THEN <<>>
    ELSE (IF ~InSomeTitle(locations[i], titles)
          THEN << Match("address", locations[i], 10) >> ELSE <<>>)
         \o CompareAddressFrom(locations, titles, i + 1)

build_compare_search_bm25_query(text, ents, sz) ==
    Bm25Body(sz,
             MatchEach("title", ents.title, 50)
             \o CompareAddressFrom(ents.location, ents.title, 1)
             \o Joined("category", ents.category, 5),
             1, <<>>, <<>>, "match_all")

build_information_search_bm25_query(text, ents, sz, raised) ==
    Bm25Body(sz,
             MatchEach("address", ents.location, 10)
             \o Joined("convenience", ents.convenience, 10),
             Absent,
             MatchEach("title", ents.title, Absent),
             build_location_filters(ents, raised), "must_not")

\* does build_bm25_query look the locations up for this intent
LooksUp(int) == int # "compare"

build_bm25_query(text, ents, int, sz, raised) ==
    IF int = "search" THEN build_general_search_bm25_query(text, ents, sz, raised)
    ELSE IF int = "compare" THEN build_compare_search_bm25_query(text, ents, sz)
    ELSE IF int = "information"
    THEN build_information_search_bm25_query(text, ents, sz, raised)
    ELSE build_general_search_bm25_query(text, ents, sz, raised)

\* faulty variant: the filter key set even with no location filter
build_vector_query_always_filter(ents, sz, raised) ==
    [size |-> sz, k |-> sz, num_candidates |-> sz * 4,
     filter_key |-> TRUE,
     filter |-> build_location_filters(ents, raised)]

\* the body of the vector query; filter_key tells whether knn has the key
\* "filter"
build_vector_query(ents, sz, raised) ==
    [size |-> sz, k |-> sz, num_candidates |-> sz * 4,
     filter_key |-> build_location_filters(ents, raised) # <<>>,
     filter |-> build_location_filters(ents, raised)]

\* the lookups one call of build_location_filters makes, in order
LookupCalls(channel, ents, raised) ==
    [i \in 1..Len(ents.location) |->
        [channel |-> channel, query |-> ents.location[i], raised |-> raised[i]]]

\* a body not built yet
NoBm25Query ==
    [size |-> Absent, query |-> "", should |-> <<>>,
     minimum_should_match |-> Absent, must |-> <<>>, filter |-> <<>>]
NoVectorQuery ==
    [size |-> Absent, k |-> Absent, num_candidates |-> Absent,
     filter_key |-> FALSE, filter |-> <<>>]

\* ------------------------------------------------ reciprocal_rank_fusion
\* faulty variant: the rank counted from 0 (enumerate without the start 1)
ReciprocalZeroBased(k, rank) == RrfScale \div (k + (rank - 1))
\* rrf_score = 1 / (k + rank)
Reciprocal(k, rank) == RrfScale \div (k + rank)

\* faulty variant: rrf_scores and all_docs kept between calls (module-level
\* dicts), so a fusion starts from what the previous one left
RrfStale ==
    IF query_results = <<>> THEN [keys |-> <<>>, rrf_scores |-> <<>>, all_docs |-> <<>>]
    ELSE LET last == query_results[Len(query_results)].results
         IN [keys |-> [i \in 1..Len(last) |-> last[i].place_id],
             rrf_scores |-> [p \in {last[i].place_id : i \in 1..Len(last)} |->
                               (CHOOSE d \in {last[i] : i \in 1..Len(last)} :
                                   d.place_id = p).rrf_score],
             all_docs |-> [p \in {last[i].place_id : i \in 1..Len(last)} |->
                               LET d == CHOOSE d \in {last[i] : i \in 1..Len(last)} :
                                            d.place_id = p
                               IN [place_id |-> d.place_id, _score |-> d._score,
                                   bm25_rank |-> d.bm25_rank, _rank |-> d._rank,
                                   bm25_score |-> d.bm25_score,
                                   vector_rank |-> d.vector_rank,
                                   vector_score |-> d.vector_score]]]
\* rrf_scores = {} and all_docs = {}: both dicts get their keys together, keys
\* is their insertion order
RrfInit == [keys |-> <<>>, rrf_scores |-> <<>>, all_docs |-> <<>>]

\* the loop over enumerate(bm25_results, 1), from position rank on
RECURSIVE Bm25Loop(_, _, _, _)
Bm25Loop(results, k, rank, st) ==
    IF rank > Len(results) THEN st
    ELSE LET doc == results[rank]
             place_id == doc.place_id
             st1 == IF place_id \notin DOMAIN st.rrf_scores
                    THEN [keys |-> Append(st.keys, place_id),
                          rrf_scores |-> (place_id :> 0) @@ st.rrf_scores,
                          all_docs |-> (place_id :> doc) @@ st.all_docs]
                    ELSE st
             st2 == [st1 EXCEPT
                        !.rrf_scores[place_id] = @ + Reciprocal(k, rank),
                        !.all_docs[place_id].bm25_rank = rank,
                        !.all_docs[place_id].bm25_score = doc._score]
         IN Bm25Loop(results, k, rank + 1, st2)

\* the loop over enumerate(vector_results, 1), from position rank on
RECURSIVE VectorLoop(_, _, _, _)
VectorLoop(results, k, rank, st) ==
    IF rank > Len(results) THEN st
    ELSE LET doc == results[rank]
             place_id == doc.place_id
             st1 == IF place_id \notin DOMAIN st.rrf_scores
                    THEN [keys |-> Append(st.keys, place_id),
                          rrf_scores |-> (place_id :> 0) @@ st.rrf_scores,
                          all_docs |-> (place_id :>
                              [doc EXCEPT !.bm25_rank = None, !.bm25_score = None])
                              @@ st.all_docs]
                    ELSE st
             st2 == [st1 EXCEPT
                        !.rrf_scores[place_id] = @ + Reciprocal(k, rank),
                        !.all_docs[place_id].vector_rank = rank,
                        !.all_docs[place_id].vector_score = doc._score]
         IN VectorLoop(results, k, rank + 1, st2)

\* rrf_scores and all_docs after both loops
Accumulate(bm25, vector, k) == VectorLoop(vector, k, 1, Bm25Loop(bm25, k, 1, RrfInit))

\* faulty variant: ascending order (reverse=True left out)
InsertSortedAscending(sorted_items, place_id, rrf_scores) ==
    LET pos == Cardinality({i \in 1..Len(sorted_items) :
                              rrf_scores[sorted_items[i]] <= rrf_scores[place_id]})
    IN SubSeq(sorted_items, 1, pos) \o <<place_id>>
       \o SubSeq(sorted_items, pos + 1, Len(sorted_items))
\* faulty variant: an item goes before the items of equal score (an ascending
\* sort that is then reversed)
InsertSortedTiesFirst(sorted_items, place_id, rrf_scores) ==
    LET pos == Cardinality({i \in 1..Len(sorted_items) :
                              rrf_scores[sorted_items[i]] > rrf_scores[place_id]})
    IN SubSeq(sorted_items, 1, pos) \o <<place_id>>
       \o SubSeq(sorted_items, pos + 1, Len(sorted_items))
\* one step of the stable sort: an item comes after the items already placed
\* whose score is at least its own
InsertSorted(sorted_items, place_id, rrf_scores) ==
    LET pos == Cardinality({i \in 1..Len(sorted_items) :
                              rrf_scores[sorted_items[i]] >= rrf_scores[place_id]})
    IN SubSeq(sorted_items, 1, pos) \o <<place_id>>
       \o SubSeq(sorted_items, pos + 1, Len(sorted_items))

\* sorted(rrf_scores.items(), key=lambda x: x[1], reverse=True): by descending
\* score, items of equal score in dict (insertion) order
RECURSIVE SortedItems(_, _, _, _)
SortedItems(keys, rrf_scores, i, acc) ==
    IF i > Len(keys) THEN acc
    ELSE SortedItems(keys, rrf_scores, i + 1, InsertSorted(acc, keys[i], rrf_scores))

\* the tag of a finished document
SearchMethod(doc) ==
    IF doc.bm25_rank # Absent /\ doc.vector_rank \notin {Absent, None} THEN "hybrid"
    ELSE IF doc.bm25_rank # Absent THEN "bm25_only"
    ELSE "vector_only"

\* all_docs[place_id].copy() with rrf_score, final_rank and search_method added
FinalDoc(doc, rrf_score, final_rank) ==
    [place_id |-> doc.place_id, _score |-> doc._score, bm25_rank |-> doc.bm25_rank,
     _rank |-> doc._rank, bm25_score |-> doc.bm25_score,
     vector_rank |-> doc.vector_rank, vector_score |-> doc.vector_score,
     rrf_score |-> rrf_score, final_rank |-> final_rank,
     search_method |-> SearchMethod(doc)]

\* the list reciprocal_rank_fusion returns
reciprocal_rank_fusion(bm25, vector, k) ==
    LET st == Accumulate(bm25, vector, k)
        sorted_items == SortedItems(st.keys, st.rrf_scores, 1, <<>>)
    IN [i \in 1..Len(sorted_items) |->
          FinalDoc(st.all_docs[sorted_items[i]], st.rrf_scores[sorted_items[i]], i)]

\* all_docs holds the argument dicts themselves, so the loops write into the
\* caller's lists: the keyword list after the call
Bm25Mutated(bm25, vector, k) ==
    LET st == Accumulate(bm25, vector, k)
    IN [i \in 1..Len(bm25) |-> st.all_docs[bm25[i].place_id]]

\* the vector list after the call: only the documents first seen in it are written
VectorMutated(bm25, vector, k) ==
    LET st == Accumulate(bm25, vector, k)
        inBm25 == {bm25[i].place_id : i \in 1..Len(bm25)}
    IN [i \in 1..Len(vector) |->
          IF vector[i].place_id \in inBm25 THEN vector[i]
          ELSE st.all_docs[vector[i].place_id]]

\* ----------------------------------------- execute_multiple_query_search
\* faulty variant: the budget not divided among the sub-queries
ResultsPerQueryUndivided(sz, n) == Max(1, sz)
\* results_per_query = max(1, size // len(query_results))
ResultsPerQuery(sz, n) == Max(1, sz \div n)

\* a Python slice list[:n], n >= 0
Prefix(list, n) == SubSeq(list, 1, Min(n, Len(list)))

\* query_data['results'][:results_per_query] of every entry of query_results
QuotaSelection(qrs, per_query) ==
    [i \in 1..Len(qrs) |-> Prefix(qrs[i].results, per_query)]

\* final_results after the loop that extends it by every selection
RECURSIVE Extended(_, _)
Extended(sel, i) ==
    IF i > Len(sel) THEN <<>> ELSE sel[i] \o Extended(sel, i + 1)

\* result not in final_results: dict equality with some element
InList(result, list) == \E i \in 1..Len(list) : list[i] = result

\* the inner loop over query_data['results'], from position j on;
\* st = [final_results, remaining_slots]
RECURSIVE BackfillResults(_, _, _)
BackfillResults(results, j, st) ==
    IF j > Len(results) \/ st.remaining_slots <= 0 THEN st
    ELSE IF ~InList(results[j], st.final_results)
         THEN BackfillResults(results, j + 1,
                  [final_results |-> Append(st.final_results, results[j]),
                   remaining_slots |-> st.remaining_slots - 1])
         ELSE BackfillResults(results, j + 1, st)

\* the outer loop over query_results, from entry i on
RECURSIVE BackfillQueries(_, _, _)
BackfillQueries(qrs, i, st) ==
    IF i > Len(qrs) THEN st
    ELSE BackfillQueries(qrs, i + 1, BackfillResults(qrs[i].results, 1, st))

\* faulty variant: strict quota truncation, no second pass
BackfillSkipped(list, qrs, sz) == list
\* final_results after the block that fills the remaining slots
Backfill(list, qrs, sz) ==
    LET remaining_slots == sz - Len(list)
    IN IF remaining_slots > 0
       THEN BackfillQueries(qrs, 1, [final_results |-> list,
                                     remaining_slots |-> remaining_slots]).final_results
       ELSE list

\* faulty variant: a slice one too short
TruncateOneLess(list, sz) == SubSeq(list, 1, IF sz - 1 <= Len(list) THEN sz - 1 ELSE Len(list))
\* faulty variant: a slice one too long
TruncateOneMore(list, sz) == Prefix(list, sz + 1)
\* final_results[:size]
Truncate(list, sz) == Prefix(list, sz)

\* --------------------------------------------------------------- actions
\* entities without any list
NoEntities ==
    [location |-> <<>>, title |-> <<>>, category |-> <<>>, convenience |-> <<>>,
     atmosphere |-> <<>>, occasion |-> <<>>, menu |-> <<>>]

\* no fusion of two ranked documents is under way
ScoreIdle ==
    /\ spc = "off"
    /\ rank_kw = 0
    /\ rank_vec = 0
    /\ rank_one = 0
    /\ one_channel = ""
    /\ rrf_pair = <<>>
    /\ fused_order = <<>>

\* the ids of the sessions: create_session_id of the hosts of the clients
SessionIds == {"s1", "s2"}

\* no entry of SessionManager.sessions under an id
NoSession == [present |-> FALSE, has_context |-> FALSE, searches |-> 0, last_activity |-> 0]

\* no session handed yet
NothingHanded ==
    [session_id |-> "", was_expired |-> FALSE, has_context |-> FALSE, searches |-> 0]

\* session_manager = SessionManager() at import time
SessionIdle ==
    /\ now = 0
    /\ sessions = [id \in SessionIds |-> NoSession]
    /\ last_cleanup = 0
    /\ handed = NothingHanded
    /\ chats = 0
    /\ ticks = 0

\* the conversations that are open at the same time
Conversations == {"a", "b"}

\* no follow-up answered yet
NoFollowUp == [conversation |-> "", context |-> "none"]

\* chat.py after import: conversation_context = None, no conversation started
ChatIdle ==
    /\ conversation_context = "none"
    /\ chat_history = [c \in Conversations |-> 0]
    /\ chat_pc = [c \in Conversations |-> "idle"]
    /\ restaurant_context = [c \in Conversations |-> "none"]
    /\ first_result = [c \in Conversations |-> "none"]
    /\ used = NoFollowUp

\* the threads of the process
Threads == {"t1", "t2"}

\* the module is imported and no thread is in get_elasticsearch_client
ClientIdle ==
    /\ es_client = None
    /\ created = 0
    /\ tpc = [t \in Threads |-> "idle"]
    /\ tlocal = [t \in Threads |-> None]
    /\ tcalls = [t \in Threads |-> 0]
    /\ returned = {}

\* no query is being built
BuilderIdle ==
    /\ bpc = "off"
    /\ intent = ""
    /\ query_text = <<>>
    /\ entities = NoEntities
    /\ fetch_size = 0
    /\ lookups = <<>>
    /\ bm25_query = NoBm25Query
    /\ vector_query = NoVectorQuery

Init ==
    /\ pc = "idle"
    /\ queries = <<>>
    /\ size = 0
    /\ qi = 0
    /\ kw_response = <<>>
    /\ vec_response = <<>>
    /\ bm25_results = <<>>
    /\ vector_results = <<>>
    /\ query_results = <<>>
    /\ selected = <<>>
    /\ final_results = <<>>
    /\ BuilderIdle
    /\ ClientIdle
    /\ ScoreIdle
    /\ SessionIdle
    /\ ChatIdle

\* hybrid_search(queries, entities, intent, size) is called
HybridSearch ==
    /\ pc = "idle"
    /\ UNCHANGED <<builderVars, clientVars>>
    /\ \E qs \in QueryLists, sz \in 0..MaxSize :
          /\ queries' = qs
          /\ size' = sz
          /\ IF qs = <<>>
             THEN pc' = "done" /\ qi' = qi
             ELSE pc' = "bm25" /\ qi' = 1
    /\ UNCHANGED <<kw_response, vec_response, bm25_results, vector_results,
                   query_results, selected, final_results>>
    /\ UNCHANGED scoreVars
    /\ UNCHANGED sessionVars
    /\ UNCHANGED chatVars

\* faulty variant: the keyword search is run a second time (a retry)
ExecuteBm25SearchRetried ==
    /\ pc = "bm25"
    /\ UNCHANGED <<builderVars, clientVars>>
    /\ \E first \in HitLists(SearchSize), hits \in HitLists(SearchSize) :
          /\ kw_response' = Append(Append(kw_response, first), hits)
          /\ bm25_results' = Bm25Results(hits)
    /\ pc' = "vector"
    /\ UNCHANGED <<queries, size, qi, vec_response, vector_results, query_results,
                   selected, final_results>>
    /\ UNCHANGED scoreVars
    /\ UNCHANGED sessionVars
    /\ UNCHANGED chatVars

\* execute_bm25_search, the store answering
ExecuteBm25Search ==
    /\ pc = "bm25"
    /\ UNCHANGED <<builderVars, clientVars>>
    /\ \E hits \in HitLists(SearchSize) :
          /\ kw_response' = Append(kw_response, hits)
          /\ bm25_results' = Bm25Results(hits)
    /\ pc' = "vector"
    /\ UNCHANGED <<queries, size, qi, vec_response, vector_results, query_results,
                   selected, final_results>>
    /\ UNCHANGED scoreVars
    /\ UNCHANGED sessionVars
    /\ UNCHANGED chatVars

\* execute_bm25_search, client.search raising: the except branch returns []
Bm25StoreRaises ==
    /\ pc = "bm25"
    /\ UNCHANGED <<builderVars, clientVars>>
    /\ kw_response' = Append(kw_response, <<>>)
    /\ bm25_results' = <<>>
    /\ pc' = "vector"
    /\ UNCHANGED <<queries, size, qi, vec_response, vector_results, query_results,
                   selected, final_results>>
    /\ UNCHANGED scoreVars
    /\ UNCHANGED sessionVars
    /\ UNCHANGED chatVars

\* execute_vector_search, the embedder and the store answering
ExecuteVectorSearch ==
    /\ pc = "vector"
    /\ UNCHANGED <<builderVars, clientVars>>
    /\ \E hits \in HitLists(SearchSize) :
          /\ vec_response' = Append(vec_response, hits)
          /\ vector_results' = VectorResults(hits)
    /\ pc' = "fuse"
    /\ UNCHANGED <<queries, size, qi, kw_response, bm25_results, query_results,
                   selected, final_results>>
    /\ UNCHANGED scoreVars
    /\ UNCHANGED sessionVars
    /\ UNCHANGED chatVars

\* execute_vector_search, client.search raising: the except branch returns []
VectorStoreRaises ==
    /\ pc = "vector"
    /\ UNCHANGED <<builderVars, clientVars>>
    /\ vec_response' = Append(vec_response, <<>>)
    /\ vector_results' = <<>>
    /\ pc' = "fuse"
    /\ UNCHANGED <<queries, size, qi, kw_response, bm25_results, query_results,
                   selected, final_results>>
    /\ UNCHANGED scoreVars
    /\ UNCHANGED sessionVars
    /\ UNCHANGED chatVars

\* execute_vector_search, the embedder raising: get_query_embedding is called
\* before the try block, the exception leaves execute_vector_search and
\* hybrid_search
EmbedderRaises ==
    /\ pc = "vector"
    /\ UNCHANGED <<builderVars, clientVars>>
    /\ pc' = "raised"
    /\ UNCHANGED <<queries, size, qi, kw_response, vec_response, bm25_results,
                   vector_results, query_results, selected, final_results>>
    /\ UNCHANGED scoreVars
    /\ UNCHANGED sessionVars
    /\ UNCHANGED chatVars

\* single-query path, after both channels: return [] or fuse
FuseSingle ==
    /\ pc = "fuse"
    /\ UNCHANGED <<builderVars, clientVars>>
    /\ Len(queries) = 1
    /\ IF bm25_results = <<>> /\ vector_results = <<>>
       THEN /\ pc' = "done"
            /\ UNCHANGED <<bm25_results, vector_results, final_results>>
       ELSE /\ final_results' = reciprocal_rank_fusion(bm25_results, vector_results, RrfK)
            /\ bm25_results' = Bm25Mutated(bm25_results, vector_results, RrfK)
            /\ vector_results' = VectorMutated(bm25_results, vector_results, RrfK)
            /\ pc' = "truncate"
    /\ UNCHANGED <<queries, size, qi, kw_response, vec_response, query_results,
                   selected>>
    /\ UNCHANGED scoreVars
    /\ UNCHANGED sessionVars
    /\ UNCHANGED chatVars

\* multi-query path, rest of one iteration of the loop over queries: fuse when a
\* channel returned something, then the next sub-query or the end of the loop
FuseMulti ==
    /\ pc = "fuse"
    /\ UNCHANGED <<builderVars, clientVars>>
    /\ Len(queries) > 1
    /\ IF bm25_results # <<>> \/ vector_results # <<>>
       THEN /\ query_results' = Append(query_results,
                  [query |-> queries[qi],
                   results |-> reciprocal_rank_fusion(bm25_results, vector_results, RrfK)])
            /\ bm25_results' = Bm25Mutated(bm25_results, vector_results, RrfK)
            /\ vector_results' = VectorMutated(bm25_results, vector_results, RrfK)
       ELSE UNCHANGED <<query_results, bm25_results, vector_results>>
    /\ IF qi < Len(queries)
       THEN qi' = qi + 1 /\ pc' = "bm25"
       ELSE /\ qi' = qi
            /\ pc' = IF query_results' = <<>> THEN "done" ELSE "quota"
    /\ UNCHANGED <<queries, size, kw_response, vec_response, selected, final_results>>
    /\ UNCHANGED scoreVars
    /\ UNCHANGED sessionVars
    /\ UNCHANGED chatVars

\* the quota pass: results_per_query documents of every sub-query
QuotaPass ==
    /\ pc = "quota"
    /\ UNCHANGED <<builderVars, clientVars>>
    /\ selected' = QuotaSelection(query_results,
                                  ResultsPerQuery(size, Len(query_results)))
    /\ final_results' = Extended(selected', 1)
    /\ pc' = "backfill"
    /\ UNCHANGED <<queries, size, qi, kw_response, vec_response, bm25_results,
                   vector_results, query_results>>
    /\ UNCHANGED scoreVars
    /\ UNCHANGED sessionVars
    /\ UNCHANGED chatVars

\* the backfill pass
BackfillPass ==
    /\ pc = "backfill"
    /\ UNCHANGED <<builderVars, clientVars>>
    /\ final_results' = Backfill(final_results, query_results, size)
    /\ pc' = "truncate"
    /\ UNCHANGED <<queries, size, qi, kw_response, vec_response, bm25_results,
                   vector_results, query_results, selected>>
    /\ UNCHANGED scoreVars
    /\ UNCHANGED sessionVars
    /\ UNCHANGED chatVars

\* return final_results[:size]
Return ==
    /\ pc = "truncate"
    /\ UNCHANGED <<builderVars, clientVars>>
    /\ final_results' = Truncate(final_results, size)
    /\ pc' = "done"
    /\ UNCHANGED <<queries, size, qi, kw_response, vec_response, bm25_results,
                   vector_results, query_results, selected>>
    /\ UNCHANGED scoreVars
    /\ UNCHANGED sessionVars
    /\ UNCHANGED chatVars

Next ==
    \/ HybridSearch
    \/ ExecuteBm25Search
    \/ Bm25StoreRaises
    \/ ExecuteVectorSearch
    \/ VectorStoreRaises
    \/ EmbedderRaises
    \/ FuseSingle
    \/ FuseMulti
    \/ QuotaPass
    \/ BackfillPass
    \/ Return

Spec == Init /\ [][Next]_vars

\* --------------------------------------------------- the demo's search
\* faulty variant: the sizes of compare and information exchanged
SizeByIntentSwapped(int) ==
    IF int = "search" THEN 5
    ELSE IF int = "compare" THEN 3
    ELSE IF int = "information" THEN 8
    ELSE 5

\* test_search_module: the size of an intent
SizeByIntent(int) ==
    IF int = "search" THEN 5
    ELSE IF int = "compare" THEN 8
    ELSE IF int = "information" THEN 3
    ELSE 5

\* test_search_module calls hybrid_search(suggested_queries, entities, intent,
\* size) with the size of the intent the NLU gave
TestSearchModule ==
    /\ pc = "idle"
    /\ \E int \in Intents, qs \in QueryLists :
          /\ intent' = int
          /\ queries' = qs
          /\ size' = SizeByIntent(int)
          /\ IF qs = <<>>
             THEN pc' = "done" /\ qi' = qi
             ELSE pc' = "bm25" /\ qi' = 1
    /\ UNCHANGED <<kw_response, vec_response, bm25_results, vector_results,
                   query_results, selected, final_results>>
    /\ UNCHANGED <<bpc, query_text, entities, fetch_size, lookups, bm25_query,
                   vector_query>>
    /\ UNCHANGED clientVars
    /\ UNCHANGED scoreVars
    /\ UNCHANGED sessionVars
    /\ UNCHANGED chatVars

NextDemo ==
    \/ TestSearchModule
    \/ ExecuteBm25Search
    \/ Bm25StoreRaises
    \/ ExecuteVectorSearch
    \/ VectorStoreRaises
    \/ EmbedderRaises
    \/ FuseSingle
    \/ FuseMulti
    \/ QuotaPass
    \/ BackfillPass
    \/ Return

SpecDemo == Init /\ [][NextDemo]_vars

\* ------------------------------------------------ the fetch sizes
\* the suggested queries of a request of several sub-queries
MultiQueryLists == {<<"qa", "qb">>, <<"qa", "qb", "qc">>}

\* hybrid_search is called with several sub-queries and goes to
\* execute_multiple_query_search
EnterMultiple ==
    /\ pc = "idle"
    /\ \E qs \in MultiQueryLists, sz \in 1..MaxBudget :
          /\ queries' = qs
          /\ size' = sz
    /\ qi' = 1
    /\ pc' = "bm25"
    /\ UNCHANGED <<kw_response, vec_response, bm25_results, vector_results,
                   query_results, selected, final_results>>
    /\ UNCHANGED <<builderVars, clientVars>>
    /\ UNCHANGED scoreVars
    /\ UNCHANGED sessionVars
    /\ UNCHANGED chatVars

\* execute_bm25_search(query, entities, intent, search_size) is called
CallBm25Search ==
    /\ pc = "bm25"
    /\ fetch_size' = SearchSize
    /\ pc' = "vector"
    /\ UNCHANGED <<queries, size, qi, kw_response, vec_response, bm25_results,
                   vector_results, query_results, selected, final_results>>
    /\ UNCHANGED <<bpc, intent, query_text, entities, lookups, bm25_query,
                   vector_query>>
    /\ UNCHANGED clientVars
    /\ UNCHANGED scoreVars
    /\ UNCHANGED sessionVars
    /\ UNCHANGED chatVars

\* execute_vector_search(query, entities, intent, search_size) is called,
\* then the loop goes to the next sub-query
CallVectorSearch ==
    /\ pc = "vector"
    /\ fetch_size' = SearchSize
    /\ IF qi < Len(queries)
       THEN qi' = qi + 1 /\ pc' = "bm25"
       ELSE qi' = qi /\ pc' = "quota"
    /\ UNCHANGED <<queries, size, kw_response, vec_response, bm25_results,
                   vector_results, query_results, selected, final_results>>
    /\ UNCHANGED <<bpc, intent, query_text, entities, lookups, bm25_query,
                   vector_query>>
    /\ UNCHANGED clientVars
    /\ UNCHANGED scoreVars
    /\ UNCHANGED sessionVars
    /\ UNCHANGED chatVars

NextFetch ==
    \/ EnterMultiple
    \/ CallBm25Search
    \/ CallVectorSearch

SpecFetch == Init /\ [][NextFetch]_vars

\* ------------------------------------------------ the client singleton
\* a thread calls get_elasticsearch_client
CallGetClient(t) ==
    /\ tpc[t] = "idle"
    /\ tcalls[t] < MaxCalls
    /\ tpc' = [tpc EXCEPT ![t] = "check"]
    /\ UNCHANGED <<es_client, created, tlocal, tcalls, returned>>
    /\ UNCHANGED <<searchVars, builderVars>>
    /\ UNCHANGED scoreVars
    /\ UNCHANGED sessionVars
    /\ UNCHANGED chatVars

\* if _es_client is None
CheckClient(t) ==
    /\ tpc[t] = "check"
    /\ tpc' = [tpc EXCEPT ![t] = IF es_client = None THEN "create" ELSE "return"]
    /\ UNCHANGED <<es_client, created, tlocal, tcalls, returned>>
    /\ UNCHANGED <<searchVars, builderVars>>
    /\ UNCHANGED scoreVars
    /\ UNCHANGED sessionVars
    /\ UNCHANGED chatVars

\* create_elasticsearch_client() returns a new client
CreateClient(t) ==
    /\ tpc[t] = "create"
    /\ created' = created + 1
    /\ tlocal' = [tlocal EXCEPT ![t] = created + 1]
    /\ tpc' = [tpc EXCEPT ![t] = "assign"]
    /\ UNCHANGED <<es_client, tcalls, returned>>
    /\ UNCHANGED <<searchVars, builderVars>>
    /\ UNCHANGED scoreVars
    /\ UNCHANGED sessionVars
    /\ UNCHANGED chatVars

\* _es_client = the new client
AssignClient(t) ==
    /\ tpc[t] = "assign"
    /\ es_client' = tlocal[t]
    /\ tlocal' = [tlocal EXCEPT ![t] = None]
    /\ tpc' = [tpc EXCEPT ![t] = "return"]
    /\ UNCHANGED <<created, tcalls, returned>>
    /\ UNCHANGED <<searchVars, builderVars>>
    /\ UNCHANGED scoreVars
    /\ UNCHANGED sessionVars
    /\ UNCHANGED chatVars

\* return _es_client
ReturnClient(t) ==
    /\ tpc[t] = "return"
    /\ returned' = returned \cup {es_client}
    /\ tcalls' = [tcalls EXCEPT ![t] = tcalls[t] + 1]
    /\ tpc' = [tpc EXCEPT ![t] = "idle"]
    /\ UNCHANGED <<es_client, created, tlocal>>
    /\ UNCHANGED <<searchVars, builderVars>>
    /\ UNCHANGED scoreVars
    /\ UNCHANGED sessionVars
    /\ UNCHANGED chatVars

NextClient ==
    \E t \in Threads :
        \/ CallGetClient(t)
        \/ CheckClient(t)
        \/ CreateClient(t)
        \/ AssignClient(t)
        \/ ReturnClient(t)

SpecClient == Init /\ [][NextClient]_vars

\* ------------------------------------------- the scores over a window
\* the longest list a channel returns to a request of one sub-query
Window == SingleSearchSize(MaxWindowBudget)

\* the unit of the scores of three ranks: every 1 / (k + rank) is a whole
\* number of 1 / ScoreScale
ScoreScale(k, a, b, c) == (k + a) * (k + b) * (k + c)

\* faulty variant: the constant k left out of the denominator
ScaledReciprocalNoK(k, rank, scale) == scale \div rank

\* rrf_score = 1 / (k + rank), in units of 1 / scale
ScaledReciprocal(k, rank, scale) == scale \div (k + rank)

\* rrf_scores after both loops, for a document at rank a of the keyword list
\* and rank b of the vector list and a document at rank c of one list
PairScores(k, a, b, c) ==
    [p \in {"both", "one"} |->
        IF p = "both"
        THEN ScaledReciprocal(k, a, ScoreScale(k, a, b, c))
             + ScaledReciprocal(k, b, ScoreScale(k, a, b, c))
        ELSE ScaledReciprocal(k, c, ScoreScale(k, a, b, c))]

\* the insertion order of the two keys: the keyword list is looped first
PairKeys(a, c, channel) ==
    IF channel = "bm25" /\ c < a THEN <<"one", "both">> ELSE <<"both", "one">>

\* reciprocal_rank_fusion on two lists of at most Window documents: the part
\* of it that concerns one document of both lists and one document of one list
FuseRanked ==
    /\ spc = "off"
    /\ \E a \in 1..Window, b \in 1..Window, c \in 1..Window,
          channel \in {"bm25", "vector"} :
          /\ channel = "bm25" => c # a
          /\ channel = "vector" => c # b
          /\ rank_kw' = a
          /\ rank_vec' = b
          /\ rank_one' = c
          /\ one_channel' = channel
          /\ rrf_pair' = PairScores(RrfK, a, b, c)
          /\ fused_order' = SortedItems(PairKeys(a, c, channel),
                                        PairScores(RrfK, a, b, c), 1, <<>>)
    /\ spc' = "fused"
    /\ UNCHANGED <<searchVars, builderVars, clientVars>>
    /\ UNCHANGED sessionVars
    /\ UNCHANGED chatVars

NextScore == FuseRanked

SpecScore == Init /\ [][NextScore]_vars

\* -------------------------------------------------------- the sessions
\* config.session_max_age_hours
SessionMaxAgeHours == 24
\* config.session_cleanup_interval, in minutes
SessionCleanupInterval == 10

\* the amounts of time that pass between two calls, in minutes: less than the
\* cleanup interval, the cleanup interval, more than the maximal age
ClockSteps ==
    {SessionCleanupInterval \div 2, SessionCleanupInterval,
     SessionMaxAgeHours * 60 + 1}

\* ConversationSession.is_expired at time t: age_hours > max_age_hours
is_expired(session, t) == (t - session.last_activity) > SessionMaxAgeHours * 60

\* ConversationSession(session_id) created at time t
NewSession(t) ==
    [present |-> TRUE, has_context |-> FALSE, searches |-> 0, last_activity |-> t]

\* SessionManager.get_or_create_session(session_id) at time t: sessions after it
get_or_create_session(all, id, t) ==
    IF all[id].present
    THEN [all EXCEPT ![id].last_activity = t]
    ELSE [all EXCEPT ![id] = NewSession(t)]

\* does cleanup_old_sessions go past its interval test at time t
CleanupRuns(t) == ~((t - last_cleanup) < SessionCleanupInterval)

\* SessionManager.cleanup_old_sessions() at time t: sessions after it
cleanup_old_sessions(all, t) ==
    IF CleanupRuns(t)
    THEN [id \in SessionIds |->
             IF all[id].present /\ is_expired(all[id], t) THEN NoSession ELSE all[id]]
    ELSE all

\* ConversationSession.update_context at time t
update_context(session, t) ==
    [session EXCEPT !.has_context = TRUE, !.searches = @ + 1, !.last_activity = t]

\* the clock advances
Tick ==
    /\ ticks < MaxTicks
    /\ \E d \in ClockSteps : now' = now + d
    /\ ticks' = ticks + 1
    /\ UNCHANGED <<sessions, last_cleanup, handed, chats>>
    /\ UNCHANGED <<searchVars, builderVars, clientVars, scoreVars>>
    /\ UNCHANGED chatVars

\* chat_fn(message, history, request) of the client with session id, whole:
\* get_or_create_session, cleanup_old_sessions, then the first-chat or the
\* follow-up handler, which does or does not end in update_context
ChatFn ==
    /\ chats < MaxChats
    /\ \E id \in SessionIds, searched \in BOOLEAN :
          LET got == get_or_create_session(sessions, id, now)
              cleaned == cleanup_old_sessions(got, now)
              session == IF searched THEN update_context(got[id], now) ELSE got[id]
          IN /\ handed' = [session_id |-> id,
                           was_expired |-> sessions[id].present
                                           /\ is_expired(sessions[id], now),
                           has_context |-> got[id].has_context,
                           searches |-> got[id].searches]
             /\ sessions' = IF cleaned[id].present
                            THEN [cleaned EXCEPT ![id] = session]
                            ELSE cleaned
    /\ last_cleanup' = IF CleanupRuns(now) THEN now ELSE last_cleanup
    /\ chats' = chats + 1
    /\ UNCHANGED <<now, ticks>>
    /\ UNCHANGED <<searchVars, builderVars, clientVars, scoreVars>>
    /\ UNCHANGED chatVars

NextSession ==
    \/ Tick
    \/ ChatFn

SpecSession == Init /\ [][NextSession]_vars

\* ------------------------------------------------- the chat of chat.py
\* what search(query) returns
SearchResults == {"r1", "r2", "r3"}

\* chat_fn with an empty history, up to the return of search(query)
FirstMessageSearch(c) ==
    /\ chat_pc[c] = "idle"
    /\ chat_history[c] = 0
    /\ \E r \in SearchResults :
          /\ restaurant_context' = [restaurant_context EXCEPT ![c] = r]
          /\ first_result' = [first_result EXCEPT ![c] = r]
    /\ chat_pc' = [chat_pc EXCEPT ![c] = "searched"]
    /\ UNCHANGED <<conversation_context, chat_history, used>>
    /\ UNCHANGED <<searchVars, builderVars, clientVars, scoreVars, sessionVars>>

\* chat_fn with an empty history, from the assignment of the global to the return
FirstMessageStore(c) ==
    /\ chat_pc[c] = "searched"
    /\ conversation_context' = restaurant_context[c]
    /\ chat_history' = [chat_history EXCEPT ![c] = 1]
    /\ chat_pc' = [chat_pc EXCEPT ![c] = "idle"]
    /\ UNCHANGED <<restaurant_context, first_result, used>>
    /\ UNCHANGED <<searchVars, builderVars, clientVars, scoreVars, sessionVars>>

\* chat_fn with a history: the answer is generated from the global context
FollowUp(c) ==
    /\ chat_pc[c] = "idle"
    /\ chat_history[c] > 0
    /\ chat_history[c] < MaxMessages
    /\ used' = [conversation |-> c, context |-> conversation_context]
    /\ chat_history' = [chat_history EXCEPT ![c] = @ + 1]
    /\ UNCHANGED <<conversation_context, chat_pc, restaurant_context, first_result>>
    /\ UNCHANGED <<searchVars, builderVars, clientVars, scoreVars, sessionVars>>

NextChat ==
    \/ \E c \in Conversations : FirstMessageSearch(c)
    \/ \E c \in Conversations : FirstMessageStore(c)
    \/ \E c \in Conversations : FollowUp(c)

SpecChat == Init /\ [][NextChat]_vars

\* ------------------------------------------- the building of the queries
\* the locals of hybrid_search before it is called
SearchIdle ==
    /\ pc = "idle"
    /\ queries = <<>>
    /\ size = 0
    /\ qi = 0
    /\ kw_response = <<>>
    /\ vec_response = <<>>
    /\ bm25_results = <<>>
    /\ vector_results = <<>>
    /\ query_results = <<>>
    /\ selected = <<>>
    /\ final_results = <<>>

\* one sub-query is about to be searched with these arguments
InitQuery ==
    /\ SearchIdle
    /\ ClientIdle
    /\ bpc = "ready"
    /\ intent \in Intents
    /\ query_text \in QueryTexts
    /\ entities \in EntitySets
    /\ fetch_size \in FetchSizes
    /\ lookups = <<>>
    /\ bm25_query = NoBm25Query
    /\ vector_query = NoVectorQuery
    /\ ScoreIdle
    /\ SessionIdle
    /\ ChatIdle

\* execute_bm25_search builds its body; each lookup it makes may raise
BuildBm25Query ==
    /\ bpc = "ready"
    /\ \E raised \in [1..Len(entities.location) -> BOOLEAN] :
          /\ LooksUp(intent) \/ \A i \in DOMAIN raised : ~raised[i]
          /\ bm25_query' = build_bm25_query(query_text, entities, intent,
                                            fetch_size, raised)
          /\ lookups' = IF LooksUp(intent)
                        THEN lookups \o LookupCalls("bm25", entities, raised)
                        ELSE lookups
    /\ bpc' = "bm25_built"
    /\ UNCHANGED <<intent, query_text, entities, fetch_size, vector_query>>
    /\ UNCHANGED <<searchVars, clientVars>>
    /\ UNCHANGED scoreVars
    /\ UNCHANGED sessionVars
    /\ UNCHANGED chatVars

\* execute_vector_search builds its body; each lookup it makes may raise
BuildVectorQuery ==
    /\ bpc = "bm25_built"
    /\ \E raised \in [1..Len(entities.location) -> BOOLEAN] :
          /\ vector_query' = build_vector_query(entities, fetch_size, raised)
          /\ lookups' = lookups \o LookupCalls("vector", entities, raised)
    /\ bpc' = "built"
    /\ UNCHANGED <<intent, query_text, entities, fetch_size, bm25_query>>
    /\ UNCHANGED <<searchVars, clientVars>>
    /\ UNCHANGED scoreVars
    /\ UNCHANGED sessionVars
    /\ UNCHANGED chatVars

NextQuery ==
    \/ BuildBm25Query
    \/ BuildVectorQuery

SpecQuery == InitQuery /\ [][NextQuery]_vars

\* ------------------------------------------------------------ properties
\* the place_ids of a list of documents, in order
PlaceIds(list) == [i \in 1..Len(list) |-> list[i].place_id]

NoRepeat(seq) == \A i, j \in 1..Len(seq) : i # j => seq[i] # seq[j]

\* the 1-based position of x in seq, 0 when it is not in it
IndexIn(seq, x) ==
    IF \E i \in 1..Len(seq) : seq[i] = x
    THEN CHOOSE i \in 1..Len(seq) : seq[i] = x
    ELSE 0

\* ceil(a / b)
Ceil(a, b) == (a + b - 1) \div b

\* a fusion has just returned: query_results and, on the single-query path,
\* final_results hold its list, and no later step changes a fused list
JustFused ==
    IF Len(queries) > 1 THEN pc \in {"bm25", "quota"} ELSE pc = "truncate"

\* right after a fusion, the fused lists the request has computed so far, each
\* with the index of its sub-query
Fusions ==
    IF ~JustFused THEN {}
    ELSE IF Len(queries) > 1
    THEN {[q |-> IndexIn(queries, query_results[j].query),
           results |-> query_results[j].results] : j \in 1..Len(query_results)}
    ELSE {[q |-> 1, results |-> final_results]}

\* the keyword rank and the vector rank of a place in sub-query q, 0 for none
KeywordRank(q, p) == IndexIn(kw_response[q], p)
VectorRank(q, p) == IndexIn(vec_response[q], p)

\* C1: no list hybrid_search returns holds two documents with the same place_id
C1_NoDuplicatePlaces ==
    pc = "done" => NoRepeat(PlaceIds(final_results))

\* C2: a fused document is tagged hybrid if and only if its bm25_rank and its
\* vector_rank are both non-null
C2_HybridIffBothRanks ==
    \A f \in Fusions : \A i \in 1..Len(f.results) :
        LET doc == f.results[i]
        IN doc.search_method = "hybrid"
           <=> (doc.bm25_rank \notin {Absent, None}
                /\ doc.vector_rank \notin {Absent, None})

\* C3: with k = 60 the fused score of a document is 1/(60+r1) when it is only in
\* the keyword list at rank r1, 1/(60+r2) when it is only in the vector list at
\* rank r2, and 1/(60+r1) + 1/(60+r2) when it is in both
C3_RrfScoreFormula ==
    \A f \in Fusions : \A i \in 1..Len(f.results) :
        LET doc == f.results[i]
            r1 == KeywordRank(f.q, doc.place_id)
            r2 == VectorRank(f.q, doc.place_id)
        IN /\ r1 > 0 \/ r2 > 0
           /\ (r1 > 0 /\ r2 = 0) => doc.rrf_score * (60 + r1) = RrfScale
           /\ (r1 = 0 /\ r2 > 0) => doc.rrf_score * (60 + r2) = RrfScale
           /\ (r1 > 0 /\ r2 > 0) =>
                 doc.rrf_score * (60 + r1) * (60 + r2)
                    = RrfScale * ((60 + r2) + (60 + r1))

\* a fused list with a document of both lists at two different ranks, a
\* keyword-only document and a vector-only document
C3_Witness ==
    \E f \in Fusions :
        /\ \E i \in 1..Len(f.results) :
              /\ KeywordRank(f.q, f.results[i].place_id) > 0
              /\ VectorRank(f.q, f.results[i].place_id) > 0
              /\ KeywordRank(f.q, f.results[i].place_id)
                    # VectorRank(f.q, f.results[i].place_id)
        /\ \E i \in 1..Len(f.results) :
              /\ KeywordRank(f.q, f.results[i].place_id) > 0
              /\ VectorRank(f.q, f.results[i].place_id) = 0
        /\ \E i \in 1..Len(f.results) :
              /\ KeywordRank(f.q, f.results[i].place_id) = 0
              /\ VectorRank(f.q, f.results[i].place_id) > 0

\* the fused list is the list [d1, ..., dn] of one channel alone: same order,
\* final_rank i and score 1/(60+i) for di, every document tagged method
IsChannelAlone(results, hits, method) ==
    /\ PlaceIds(results) = hits
    /\ \A i \in 1..Len(results) :
          /\ results[i].final_rank = i
          /\ results[i].rrf_score * (60 + i) = RrfScale
          /\ results[i].search_method = method

\* C4: when exactly one channel's list is empty the fusion returns the other
\* channel's list as it is, tagged vector_only when the keyword list is empty
\* and bm25_only when the vector list is empty
C4_EmptyChannelDegradation ==
    \A f \in Fusions :
        /\ (kw_response[f.q] = <<>> /\ vec_response[f.q] # <<>>)
              => IsChannelAlone(f.results, vec_response[f.q], "vector_only")
        /\ (vec_response[f.q] = <<>> /\ kw_response[f.q] # <<>>)
              => IsChannelAlone(f.results, kw_response[f.q], "bm25_only")

AllFused == Extended([j \in 1..Len(query_results) |-> query_results[j].results], 1)

\* C6: in the multi-query merge, when the sub-queries with results are at most B,
\* the final list holds the top document of every one of them; and when no place
\* is in two fused lists, the slots left are filled from the fused lists until
\* the budget is reached or the candidates run out
C6_SparseSubQueryKept ==
    (pc = "done" /\ Len(queries) > 1 /\ query_results # <<>>
        /\ Len(query_results) <= size)
    => /\ \A j \in 1..Len(query_results) :
             InList(query_results[j].results[1], final_results)
       /\ NoRepeat(PlaceIds(AllFused))
             => /\ Len(final_results) = Min(size, Len(AllFused))
                /\ \A i \in 1..Len(final_results) : InList(final_results[i], AllFused)
                /\ NoRepeat(PlaceIds(final_results))

\* sub-query A with several results, sub-query B with a single one, all places
\* distinct: the returned list is B's result and B - 1 of A's, the last of them
\* added by the backfill pass
C6_Witness ==
    /\ pc = "done"
    /\ Len(query_results) = 2
    /\ Len(query_results[1].results) >= 2
    /\ Len(query_results[2].results) = 1
    /\ NoRepeat(PlaceIds(AllFused))
    /\ Len(Extended(selected, 1)) < Len(final_results)
    /\ Len(final_results) = size
    /\ InList(query_results[2].results[1], final_results)
    /\ Cardinality({i \in 1..Len(final_results) :
                       InList(final_results[i], query_results[1].results)}) = size - 1

\* C7: the list hybrid_search returns has at most size documents
C7_ResultAtMostSize ==
    pc = "done" => Len(final_results) <= size

\* the multi-query path returned after a quota pass that selected more than size
\* documents
C7_Witness ==
    /\ pc = "done"
    /\ Len(queries) > 1
    /\ Len(Extended(selected, 1)) > size
    /\ size >= 1
    /\ Len(final_results) = size

\* the position at which the fusion of sub-query q first meets place p: the
\* keyword list first, then the documents first seen in the vector list
FirstEncounter(q, p) ==
    IF KeywordRank(q, p) > 0 THEN KeywordRank(q, p)
    ELSE Len(kw_response[q]) + VectorRank(q, p)

\* C8: two documents of equal fused score stand in the order of their first
\* encounter, the keyword list before the vector list
C8_TieKeepsFirstEncounter ==
    \A f \in Fusions : \A a, b \in 1..Len(f.results) :
        (a < b /\ f.results[a].rrf_score = f.results[b].rrf_score)
        => FirstEncounter(f.q, f.results[a].place_id)
              < FirstEncounter(f.q, f.results[b].place_id)

\* a fused list where a keyword-only document and a vector-only document of the
\* same rank tie
C8_Witness ==
    \E f \in Fusions : \E a, b \in 1..Len(f.results) :
        /\ a < b
        /\ f.results[a].rrf_score = f.results[b].rrf_score
        /\ VectorRank(f.q, f.results[a].place_id) = 0
        /\ KeywordRank(f.q, f.results[b].place_id) = 0
        /\ KeywordRank(f.q, f.results[a].place_id)
              = VectorRank(f.q, f.results[b].place_id)

C10_NoExceptionPropagates ==
    pc # "raised"

\* no channel call of the request has returned a document
NothingRetrieved ==
    /\ \A i \in 1..Len(kw_response) : kw_response[i] = <<>>
    /\ \A i \in 1..Len(vec_response) : vec_response[i] = <<>>

\* C11: for size >= 1 the list hybrid_search returns is empty if and only if both
\* channels returned nothing for every sub-query (or there is no sub-query)
C11_EmptyIffNothingRetrieved ==
    (pc = "done" /\ size >= 1) => (final_results = <<>> <=> NothingRetrieved)

\* two sub-queries, a single channel call of the second returned one document,
\* and the returned list holds it
C11_Witness ==
    /\ pc = "done"
    /\ size >= 1
    /\ Len(queries) = 2
    /\ kw_response = << <<>>, <<>> >>
    /\ vec_response[1] = <<>>
    /\ Len(vec_response[2]) = 1
    /\ Len(final_results) = 1

\* the clauses of a list that are on a field
OnField(clauses, field) == {i \in 1..Len(clauses) : clauses[i].field = field}

\* a keyword body without any clause: no should, no must, no filter
NoClause(body) == body.should = <<>> /\ body.must = <<>> /\ body.filter = <<>>

\* the keyword body has been built
Bm25Built == bpc \in {"bm25_built", "built"}

\* C12: for every intent, a keyword query without any clause is the explicit
\* match-nothing query and never the match_all query
C12_EmptySignalMatchesNothing ==
    (Bm25Built /\ NoClause(bm25_query)) => bm25_query.query = "must_not"

\* C13: for intent search, a non-empty convenience list is in the keyword
\* query as a clause of the filter and not as a should clause
C13_ConvenienceIsFilter ==
    (Bm25Built /\ intent = "search" /\ entities.convenience # <<>>)
        => /\ OnField(bm25_query.filter, "convenience") # {}
           /\ OnField(bm25_query.should, "convenience") = {}

\* the lookups a channel made, in order
LookupsOf(channel) == SelectSeq(lookups, LAMBDA call : call.channel = channel)

\* the filter the text of build_location_filters asks for one location: a
\* geo-radius filter for one match or a first match named as the trimmed input,
\* an address match for every other outcome
FilterByRule(location, results) ==
    IF Len(results) = 1
       \/ (results # <<>> /\ Strip(results[1].name) = Strip(location))
    THEN GeoDistance(results[1].coordinate)
    ELSE Match("address", location, Absent)

\* C14: with every lookup answered, build_location_filters gives one filter
\* for each location: the geo-radius filter or else the address match
C14_OneFilterPerLocation ==
    (bpc = "built" /\ \A i \in 1..Len(LookupsOf("vector")) : ~LookupsOf("vector")[i].raised)
        => vector_query.filter =
              [i \in 1..Len(entities.location) |->
                  FilterByRule(entities.location[i],
                               CoordinatesIndex(entities.location[i]))]

\* the filters of the locations whose lookup did not raise, each as
\* build_location_filters gives it for that location alone with the lookup
\* answered
RECURSIVE FiltersOfAnswered(_)
FiltersOfAnswered(calls) ==
    IF calls = <<>> THEN <<>>
    ELSE (IF calls[1].raised THEN <<>>
          ELSE build_location_filters([location |-> <<calls[1].query>>],
                                      <<FALSE>>))
         \o FiltersOfAnswered(Tail(calls))

\* the coordinate of a geo_distance filter is the first hit of a lookup of
\* this channel that did not raise
FromAnsweredLookup(filter, channel) ==
    \E i \in 1..Len(LookupsOf(channel)) :
        /\ ~LookupsOf(channel)[i].raised
        /\ CoordinatesIndex(LookupsOf(channel)[i].query) # <<>>
        /\ filter.coordinate = CoordinatesIndex(LookupsOf(channel)[i].query)[1].coordinate

\* C15: a lookup that raises leaves its location without a geo filter and the
\* filters of the other locations as they are, the body is built all the
\* same, and every geo_distance filter has the coordinate of an answered lookup
C15_FailedLookupOmitsFilter ==
    (bpc = "built")
        => /\ vector_query.filter = FiltersOfAnswered(LookupsOf("vector"))
           /\ Len(LookupsOf("vector")) = Len(entities.location)
           /\ \A i \in 1..Len(vector_query.filter) :
                 vector_query.filter[i].type = "geo_distance"
                    => FromAnsweredLookup(vector_query.filter[i], "vector")
           /\ \A i \in 1..Len(bm25_query.filter) :
                 bm25_query.filter[i].type = "geo_distance"
                    => FromAnsweredLookup(bm25_query.filter[i], "bm25")

\* the lookup of the first of two locations raised, the second has its filter
C15_Witness ==
    /\ bpc = "built"
    /\ entities.location = <<LocAmbiguous, LocSingle>>
    /\ LookupsOf("vector")[1].raised
    /\ ~LookupsOf("vector")[2].raised
    /\ vector_query.filter = << GeoDistance([lat |-> 1, lon |-> 11]) >>

\* a filter of build_location_filters: geo_distance on pin.coordinate or a
\* match of a location on address
IsLocationFilter(filter) ==
    \/ filter.type = "geo_distance" /\ filter.field = "pin.coordinate"
    \/ /\ filter.type = "match" /\ filter.field = "address"
       /\ \E i \in 1..Len(entities.location) : filter.query = entities.location[i]

\* C16: for every intent the vector body has k = size, num_candidates =
\* 4 * size, nothing but location filters, and the key filter only when there
\* is a location filter
C16_VectorQueryLocationOnly ==
    (bpc = "built")
        => /\ vector_query.size = fetch_size
           /\ vector_query.k = fetch_size
           /\ vector_query.num_candidates = 4 * fetch_size
           /\ \A i \in 1..Len(vector_query.filter) :
                 IsLocationFilter(vector_query.filter[i])
           /\ Len(vector_query.filter) <= Len(entities.location)
           /\ vector_query.filter_key <=> vector_query.filter # <<>>

\* every entity list given, the only location without a match: no filter key
C16_Witness ==
    /\ bpc = "built"
    /\ entities.location = <<LocNoMatch>>
    /\ entities.title # <<>> /\ entities.category # <<>>
    /\ entities.convenience # <<>> /\ entities.menu # <<>>
    /\ entities.atmosphere # <<>> /\ entities.occasion # <<>>
    /\ vector_query.k = 50 /\ vector_query.num_candidates = 200
    /\ ~vector_query.filter_key

\* the location is in a title, whatever the case of the letters
SubsumedByTitle(location) ==
    \E t \in 1..Len(entities.title) :
        \E off \in 0..(Len(entities.title[t]) - Len(location)) :
            \A k \in 1..Len(location) :
                LowerChar(entities.title[t][off + k]) = LowerChar(location[k])

\* C17: the compare keyword body has a should clause of boost 5 for each
\* title, an address should clause of boost 1 for exactly the locations that
\* are in no title whatever the case, no must, no filter, and no lookup is made
C17_CompareQueryShape ==
    (Bm25Built /\ intent = "compare")
        => /\ \A i \in 1..Len(entities.title) :
                 bm25_query.should[i] = Match("title", entities.title[i], 50)
           /\ Cardinality(OnField(bm25_query.should, "title")) = Len(entities.title)
           /\ \A i \in 1..Len(entities.location) :
                 (\E j \in OnField(bm25_query.should, "address") :
                      bm25_query.should[j] = Match("address", entities.location[i], 10))
                 <=> ~SubsumedByTitle(entities.location[i])
           /\ \A j \in OnField(bm25_query.should, "address") :
                 \E i \in 1..Len(entities.location) :
                     /\ bm25_query.should[j] = Match("address", entities.location[i], 10)
                     /\ ~SubsumedByTitle(entities.location[i])
           /\ bm25_query.must = <<>>
           /\ bm25_query.filter = <<>>
           /\ LookupsOf("bm25") = <<>>

\* two locations, one of them in a title in another case
C17_Witness ==
    /\ bpc = "bm25_built" /\ intent = "compare"
    /\ entities.title = << <<"b">>, <<"E", " ", "x">> >>
    /\ entities.location = <<LocExact, LocAmbiguous>>
    /\ bm25_query.should = << Match("title", <<"b">>, 50),
                              Match("title", <<"E", " ", "x">>, 50),
                              Match("address", LocAmbiguous, 10) >>

\* the documents of all the fused lists of the sub-queries
RECURSIVE FusedCount(_)
FusedCount(qrs) == IF qrs = <<>> THEN 0 ELSE Len(qrs[1].results) + FusedCount(Tail(qrs))

\* C18: the size is 5 for search, 8 for compare and 3 for information, a
\* single sub-query is fetched with max(50, 10 * size) per channel, and the
\* returned list has at most the size of the intent
C18_IntentBudget ==
    (pc # "idle")
        => /\ intent = "search" => size = 5
           /\ intent = "compare" => size = 8
           /\ intent = "information" => size = 3
           /\ (Len(queries) = 1 /\ pc \in {"bm25", "vector"})
                 => /\ SearchSize >= 50 /\ SearchSize >= 10 * size
                    /\ SearchSize \in {50, 10 * size}
                    /\ intent = "compare" => SearchSize = 80
           /\ pc = "done" =>
                 /\ intent = "search" => Len(final_results) <= 5
                 /\ intent = "compare" => Len(final_results) <= 8
                 /\ intent = "information" => Len(final_results) <= 3

\* an information request whose sub-queries fused more than 3 documents
C18_Witness ==
    /\ pc = "done" /\ intent = "information"
    /\ Len(queries) = 2
    /\ FusedCount(query_results) > 3
    /\ Len(final_results) = 3

\* C19: under every interleaving of the calls of get_elasticsearch_client,
\* create_elasticsearch_client runs at most once and every call returns the
\* same client
C19_ClientConstructedOnce ==
    /\ created <= 1
    /\ Cardinality(returned) <= 1

\* C20: with several sub-queries every channel call of every sub-query
\* gets the fetch size max(20, (size \div n) * 4), n the number of sub-queries
C20_MultiFetchTimesFour ==
    (pc \in {"vector", "quota"} /\ Len(queries) >= 2 /\ size >= 1)
        => fetch_size = Max(20, (size \div Len(queries)) * 4)

\* ------------------------------------------- the evaluation harness
\* perform_searches: the selection loop over one rrf_results, from position j
\* on; st = [query_rrf, seen_ids]
RECURSIVE HarnessSelect(_, _, _, _)
HarnessSelect(results, j, per_query, st) ==
    IF j > Len(results) \/ Len(st.query_rrf) >= per_query THEN st
    ELSE IF results[j].place_id \notin st.seen_ids
         THEN HarnessSelect(results, j + 1, per_query,
                  [query_rrf |-> Append(st.query_rrf, results[j]),
                   seen_ids |-> st.seen_ids \cup {results[j].place_id}])
         ELSE HarnessSelect(results, j + 1, per_query, st)

\* perform_searches: rrf_by_query and seen_ids after the loop over
\* query_results, from entry i on; st = [rrf_by_query, seen_ids]
RECURSIVE HarnessByQuery(_, _, _, _)
HarnessByQuery(fused, i, per_query, st) ==
    IF i > Len(fused) THEN st
    ELSE LET one == HarnessSelect(fused[i], 1, per_query,
                                  [query_rrf |-> <<>>, seen_ids |-> st.seen_ids])
         IN HarnessByQuery(fused, i + 1, per_query,
                [rrf_by_query |-> Append(st.rrf_by_query, one.query_rrf),
                 seen_ids |-> one.seen_ids])

\* perform_searches: element i of every list that has one, in the order of the
\* lists, from list q on
RECURSIVE RoundRobinRow(_, _, _)
RoundRobinRow(lists, i, q) ==
    IF q > Len(lists) THEN <<>>
    ELSE (IF i <= Len(lists[q]) THEN <<lists[q][i]>> ELSE <<>>)
         \o RoundRobinRow(lists, i, q + 1)

\* perform_searches: the round-robin combination, from row i on
RECURSIVE RoundRobin(_, _)
RoundRobin(lists, i) ==
    IF \A q \in 1..Len(lists) : i > Len(lists[q]) THEN <<>>
    ELSE RoundRobinRow(lists, i, 1) \o RoundRobin(lists, i + 1)

\* perform_searches: the filling loop over one rrf_results, from position j
\* on; st = [final_results, seen_ids]
RECURSIVE HarnessFillResults(_, _, _, _)
HarnessFillResults(results, j, search_size, st) ==
    IF j > Len(results) \/ Len(st.final_results) >= search_size THEN st
    ELSE IF results[j].place_id \notin st.seen_ids
         THEN HarnessFillResults(results, j + 1, search_size,
                  [final_results |-> Append(st.final_results, results[j]),
                   seen_ids |-> st.seen_ids \cup {results[j].place_id}])
         ELSE HarnessFillResults(results, j + 1, search_size, st)

\* perform_searches: the filling loop over query_results, from entry i on
RECURSIVE HarnessFill(_, _, _, _)
HarnessFill(fused, i, search_size, st) ==
    IF i > Len(fused) \/ Len(st.final_results) >= search_size THEN st
    ELSE HarnessFill(fused, i + 1, search_size,
                     HarnessFillResults(fused[i], 1, search_size, st))

\* perform_searches: final_results from the rrf_results of the sub-queries
\* (fused) and search_size
perform_searches(fused, search_size) ==
    IF Len(fused) = 1 THEN fused[1]
    ELSE LET picked == HarnessByQuery(fused, 1, Max(1, search_size \div Len(fused)),
                                      [rrf_by_query |-> <<>>, seen_ids |-> {}])
             combined == RoundRobin(picked.rrf_by_query, 1)
         IN IF Len(combined) < search_size
            THEN HarnessFill(fused, 1, search_size,
                             [final_results |-> combined,
                              seen_ids |-> picked.seen_ids]).final_results
            ELSE combined

\* the fused lists of the sub-queries of the request
FusedLists == [j \in 1..Len(query_results) |-> query_results[j].results]

DistinctPlaces == {AllFused[i].place_id : i \in 1..Len(AllFused)}

\* C22: the list execute_multiple_query_search returns after the quota pass and
\* the backfill pass has exactly min(B, D) documents, B the size and D the
\* number of distinct place_ids over the fused lists of all the sub-queries
C22_FinalLengthMinBudgetDistinct ==
    (pc = "done" /\ Len(queries) > 1 /\ size >= 1 /\ query_results # <<>>)
        => Len(final_results) = Min(size, Cardinality(DistinctPlaces))

\* the places of a list of hits
HitSet(hits) == {hits[i] : i \in 1..Len(hits)}

\* C23: the list reciprocal_rank_fusion returns has every place of the two
\* input lists exactly once, is in non-increasing order of rrf_score, and its
\* i-th document has final_rank i
C23_FusedListSortedAndRanked ==
    \A f \in Fusions :
        /\ NoRepeat(PlaceIds(f.results))
        /\ {f.results[i].place_id : i \in 1..Len(f.results)}
              = HitSet(kw_response[f.q]) \cup HitSet(vec_response[f.q])
        /\ \A i \in 1..Len(f.results) : f.results[i].final_rank = i
        /\ \A i, j \in 1..Len(f.results) :
              i < j => f.results[i].rrf_score >= f.results[j].rrf_score

\* a fusion of three places, one in both lists and of a higher score than the
\* other two
C23_Witness ==
    /\ pc = "truncate" /\ Len(queries) = 1
    /\ kw_response[1] = <<"p1", "p2">>
    /\ vec_response[1] = <<"p3", "p2">>
    /\ PlaceIds(final_results) = <<"p2", "p1", "p3">>
    /\ final_results[1].rrf_score > final_results[2].rrf_score
    /\ final_results[3].final_rank = 3

\* C24: reciprocal_rank_fusion leaves its arguments as they were: after the
\* call the keyword list and the vector list are the lists the channels
\* returned, every document with the same fields and values
C24_FusionLeavesArguments ==
    (JustFused /\ kw_response # <<>>)
        => /\ bm25_results = Bm25Results(kw_response[Len(kw_response)])
           /\ vector_results = VectorResults(vec_response[Len(vec_response)])

\* the channel calls made so far: kw keyword calls and vec vector calls, one
\* response logged for each call that returned
ChannelCalls(kw, vec) == Len(kw_response) = kw /\ Len(vec_response) = vec

\* where the request is, against the calls made
CallsInOrder ==
    /\ pc = "bm25" => ChannelCalls(qi - 1, qi - 1)
    /\ pc = "vector" => ChannelCalls(qi, qi - 1)
    /\ pc = "fuse" => ChannelCalls(qi, qi)
    /\ pc \in {"quota", "backfill", "truncate"}
          => /\ ChannelCalls(Len(queries), Len(queries))
             /\ Len(query_results) <= Len(queries)
    /\ pc \in {"quota", "backfill"} => qi = Len(queries)
    /\ (pc = "done" /\ queries # <<>>) => ChannelCalls(Len(queries), Len(queries))

\* the request returns: after the cut to size, or with the empty list
ReturnsAfterCut ==
    (pc # "done" /\ pc' = "done")
        => \/ /\ pc = "truncate"
              /\ final_results' = SubSeq(final_results, 1, Min(size, Len(final_results)))
           \/ final_results' = <<>>

\* C25: in one request every sub-query has one keyword call and one vector
\* call, its fusion comes after both, the merge comes after the fusion of the
\* last sub-query, and the cut to size is the last step before the return
C25_ControlFlow == [] CallsInOrder /\ [][ReturnsAfterCut]_vars

\* a request of two sub-queries returned a list cut to its size
C25_Witness ==
    /\ pc = "done" /\ Len(queries) = 2 /\ size >= 1
    /\ ChannelCalls(2, 2)
    /\ Len(query_results) = 2
    /\ Len(AllFused) > size
    /\ Len(final_results) = size

\* C26: in every list hybrid_search returns, on both paths, the document at
\* position i has final_rank i and the rrf_score never increases along the list
C26_ReturnedListRanked ==
    (pc = "done")
        => /\ \A i \in 1..Len(final_results) : final_results[i].final_rank = i
           /\ \A i, j \in 1..Len(final_results) :
                 i < j => final_results[i].rrf_score >= final_results[j].rrf_score

\* C27: for the intents search and information the keyword body and the vector
\* body of one sub-query have the same list of location filters, each channel
\* making its own lookups
C27_ChannelsShareLocationFilters ==
    (bpc = "built" /\ intent \in {"search", "information"})
        => bm25_query.filter = vector_query.filter

\* C28: with k = 60 and lists of at most 50 documents, a document of both
\* channels has a strictly higher fused score than a document of one channel
\* and comes before it in the fused list, whatever the three ranks
C28_BothChannelsOutrankOne ==
    (spc = "fused")
        => /\ rrf_pair["both"] > rrf_pair["one"]
           /\ (RrfK + rank_one) * ((RrfK + rank_kw) + (RrfK + rank_vec))
                 > (RrfK + rank_kw) * (RrfK + rank_vec)
           /\ fused_order = <<"both", "one">>

\* the worst case: last in both lists against first in one list
C28_Witness ==
    /\ spc = "fused"
    /\ rank_kw = 50 /\ rank_vec = 50 /\ rank_one = 1
    /\ one_channel = "bm25"
    /\ fused_order = <<"both", "one">>

\* C29: a session whose last_activity is older than session_max_age_hours is
\* never handed back with its context: the request that comes after the expiry
\* gets a session without context and with an empty search history
C29_ExpiredSessionStartsFresh ==
    handed.was_expired => (~handed.has_context /\ handed.searches = 0)

\* C30: the context a follow-up message of a conversation is answered with is
\* the search result of the first message of that conversation
C30_FollowUpUsesOwnContext ==
    (used.conversation # "")
        => used.context = first_result[used.conversation]
====
